---- MODULE Spec2Model ----
(***************************************************************************)
(* ClipForge: the authentication and secure-resource-access layer of the   *)
(* web application (frontend/static/js/auth.js, app.js) and of the browser *)
(* extension (background/auth-manager.js, background/api-client.js).       *)
(*                                                                         *)
(* JavaScript runs each callback to its next await without interruption;   *)
(* every action below is one such run.  "" stands for null / undefined /   *)
(* the empty string (all falsy in the source), 0 for "no timer / no        *)
(* window / no number".                                                    *)
(***************************************************************************)
EXTENDS Integers, Sequences, FiniteSets, TLC

\* ------------------------------------------------------------------ bounds
\* safeFetch calls that may be awaiting their response at once
MaxInFlight == 2
\* concurrent callers of getMediaToken
MaxMediaCallers == 2
\* how many steps of MediaTimeStep the clock of the application page advances
MaxMediaTicks == 3
\* concurrent callers of getStoredTokens
MaxGetCallers == 2
\* how many steps of ExtTimeStep the clock of the extension advances
MaxExtTicks == 3
\* concurrent calls of initiateAuth
MaxHandshakes == 2
\* status polls of one handshake awaiting their response at once
MaxPollsInFlight == 2
\* video players on the page at once
MaxPlayers == 1
\* error events of one player
MaxLoadFailures == 3
\* how many steps of MediaTimeStep the clock advances while players are open
MaxPlayerTicks == 2
\* concurrent calls of plexOAuth
MaxWebHandshakes == 2
\* status polls of one web handshake awaiting their response at once
MaxWebPollsInFlight == 2
\* calls of ClipForgeAPI.request awaiting their response at once
MaxRequestsInFlight == 2
\* runs of logout() on the application page
MaxLogouts == 1
\* how many steps of MarkerTimeStep the clock advances over the markers
MaxMarkerTicks == 5

VARIABLES
    \* ---- web application page (app.js)
    documentCookie,   \* document.cookie: a sequence of <<name, value>> pairs
    csrfToken,        \* let csrfToken: the in-memory mirror
    lastFetch,        \* the most recent call of window.fetch, as it was sent
    safeFetchPending, \* safeFetch calls whose fetch() has not settled yet
    mediaTokenCache,  \* let mediaTokenCache = new Map(): cacheKey -> entry
    mediaCall,        \* the calls of getMediaToken, one per caller
    lastReturn,       \* the most recent return of getMediaToken
    location,         \* window.location.href of the application page
    now,              \* Date.now(), in milliseconds
    recentlyCreatedClips, \* let recentlyCreatedClips = new Map(): id -> expiresAt
    player,           \* the video.js players with setupVideoPlayerErrorHandling
    lastQuery,        \* the most recent return of isClipRecentlyCreated
    sessionValid,     \* whether the backend accepts the page's session cookie
    logoutCall,       \* the call of logout() of the page and how many have run
    \* ---- browser extension (auth-manager.js, api-client.js)
    storage,          \* chrome.storage.local: authToken, plexToken, tokenExpiry
    apiToken,         \* ClipForgeAPI.token
    apiPlexToken,     \* ClipForgeAPI.plexToken
    pollInterval,     \* AuthManager.pollInterval: the timer set last, 0 for null
    timers,           \* the interval timers that have not been cleared
    auth,             \* the calls of initiateAuth
    getCall,          \* the calls of getStoredTokens
    logoutPc,         \* the call of clearTokens made by handleLogout
    requestPending,   \* calls of ClipForgeAPI.request whose fetch() has not settled
    \* ---- login page of the web application (auth.js) and its browser
    plexOAuthWindow,  \* let plexOAuthWindow: a window, 0 for null
    pinPolling,       \* let pinPolling: the interval set last, 0 for null
    popup,            \* the open window named Plex-OAuth, 0 if there is none
    popupPin,         \* the PIN whose code the page in the popup was opened with
    authorized,       \* the PINs the user has authorized at the provider
    webTimers,        \* the intervals that have not been cleared
    webTimeouts,      \* the five-minute timeouts that have not fired, oldest first
    web,              \* the calls of plexOAuth
    lastTick,         \* the most recent run of an interval callback
    userClosed,       \* the windows the user has closed
    sessionStorage,   \* plex_auth_pin_id and plex_auth_redirect
    webLocation       \* where the login page's window is

fetchVars == <<documentCookie, csrfToken, lastFetch, safeFetchPending>>

mediaVars == <<mediaTokenCache, mediaCall, lastReturn, location, now>>

extVars == <<storage, apiToken, apiPlexToken, pollInterval, timers, auth,
             getCall, logoutPc>>

playerVars == <<recentlyCreatedClips, player, lastQuery>>

serverVars == <<sessionValid>>

pageVars == <<logoutCall>>

clientVars == <<requestPending>>

webVars == <<plexOAuthWindow, pinPolling, popup, popupPin, authorized,
             webTimers, webTimeouts, web, lastTick, userClosed,
             sessionStorage, webLocation>>

vars == <<documentCookie, csrfToken, lastFetch, safeFetchPending,
          mediaTokenCache, mediaCall, lastReturn, location, now,
          recentlyCreatedClips, player, lastQuery, sessionValid, logoutCall,
          storage, apiToken, apiPlexToken, pollInterval, timers, auth,
          getCall, logoutPc, requestPending,
          plexOAuthWindow, pinPolling, popup, popupPin, authorized,
          webTimers, webTimeouts, web, lastTick, userClosed,
          sessionStorage, webLocation>>

\* what the actions of one part of the program leave alone
notFetchVars == <<mediaTokenCache, mediaCall, lastReturn, location, now,
                  playerVars, serverVars, pageVars, clientVars, extVars,
                  webVars>>

notAppVars == <<playerVars, serverVars, pageVars, clientVars, extVars, webVars>>

notExtVars == <<fetchVars, mediaTokenCache, mediaCall, lastReturn, location,
                playerVars, serverVars, pageVars, clientVars, webVars>>

notWebVars == <<fetchVars, mediaVars, playerVars, serverVars, pageVars, clientVars,
                extVars>>

notPlayerVars == <<documentCookie, safeFetchPending, mediaCall, lastReturn,
                   serverVars, pageVars, clientVars, extVars, webVars>>

\* an empty Map
NoMap == [k \in {} |-> ""]

\* ------------------------------------------------------------ HTTP headers
\* A headers object is a function from header names to values.
NoHeaders == [n \in {} |-> ""]

ContentTypeJson == [n \in {"Content-Type"} |-> "application/json"]

\* { ...a, ...b }: b's entries override a's
Spread(a, b) ==
    [n \in (DOMAIN a) \cup (DOMAIN b) |-> IF n \in DOMAIN b THEN b[n] ELSE a[n]]

HeaderOf(req, name) ==
    IF name \in DOMAIN req.headers THEN req.headers[name] ELSE ""

\* String.prototype.toUpperCase on the method names the callers can pass
toUpperCase(m) ==
    CASE m = "post" -> "POST"
      [] m = "Post" -> "POST"
      [] m = "put" -> "PUT"
      [] m = "delete" -> "DELETE"
      [] m = "Delete" -> "DELETE"
      [] m = "patch" -> "PATCH"
      [] m = "get" -> "GET"
      [] OTHER -> m

\* options.method as callers may pass it; "" is an options object without method
Methods == {"", "GET", "get", "POST", "post", "PUT", "Delete", "PATCH"}

\* values the backend may give the anti-forgery token
CsrfValues == {"t1", "t2"}

\* ------------------------------------------------------------ the cookie
\* document.cookie holds one pair per cookie name of the page's origin.
CookieJars ==
    {<<>>, <<<<"session", "s1">>>>, <<<<"csrf_token", "">>>>}
    \cup {<<<<"session", "s1">>, <<"csrf_token", v>>>> : v \in CsrfValues}
    \cup {<<<<"csrf_token", v>>, <<"session", "s1">>>> : v \in CsrfValues}

\* getCookie(name): split "; " + document.cookie on "; name=": exactly two
\* parts when exactly one pair carries the name; the value runs to the next ";".
getCookie(name) ==
    LET at == {i \in 1..Len(documentCookie) : documentCookie[i][1] = name}
    IN  IF Cardinality(at) = 1
        THEN documentCookie[CHOOSE i \in at : TRUE][2]
        ELSE ""

\* ensureCSRFToken(): the new value of the mirror
ensureCSRFToken(mirror) ==
    LET cookieToken == getCookie("csrf_token")
    IN  IF cookieToken # "" THEN cookieToken ELSE mirror

\* getCSRFHeaders(): the headers it returns; the mirror (its argument) is
\* overwritten with the cookie's value before it is used
getCSRFHeadersFromMirror(mirror) ==
    IF mirror # ""
    THEN [n \in {"X-CSRF-Token"} |-> mirror]
    ELSE NoHeaders

getCSRFHeaders(mirror) ==
    LET cookieToken == getCookie("csrf_token")
    IN  IF cookieToken # ""
        THEN [n \in {"X-CSRF-Token"} |-> cookieToken]
        ELSE NoHeaders

\* the mirror after getCSRFHeaders()
mirrorAfterGetCSRFHeaders(mirror) ==
    LET cookieToken == getCookie("csrf_token")
    IN  IF cookieToken # "" THEN cookieToken ELSE mirror

\* updateCSRFToken(response): the new value of the mirror
updateCSRFToken(mirror, responseHeader) ==
    IF responseHeader # "" THEN responseHeader ELSE mirror

\* the method test of safeFetch
isStateChangingOrAnyMethod(method) ==
    method # ""

isStateChanging(method) ==
    method # "" /\ toUpperCase(method) \in {"POST", "PUT", "DELETE", "PATCH"}

\* a call of window.fetch; seq flips on every call, mirrorBefore is the value
\* the mirror had when the caller was entered
NoBody == [resource_id |-> "", resource_type |-> ""]

\* no call of fetch yet
NoFetch ==
    [via |-> "", url |-> <<>>, method |-> "", headers |-> NoHeaders,
     body |-> NoBody, credentials |-> "", mirrorBefore |-> "", seq |-> 0]

Fetch(via, url, method, headers, credentials, mirrorBefore) ==
    [via |-> via, url |-> url, method |-> method, headers |-> headers,
     body |-> NoBody, credentials |-> credentials,
     mirrorBefore |-> mirrorBefore, seq |-> 1 - lastFetch.seq]

\* the request safeFetch(url, options) passes to fetch
safeFetchRequest(url, method, callerHeaders) ==
    Fetch("safeFetch", url, method,
          IF isStateChanging(method)
          THEN Spread(callerHeaders, getCSRFHeaders(ensureCSRFToken(csrfToken)))
          ELSE callerHeaders,
          "include", csrfToken)

\* the mirror after safeFetch's synchronous part
safeFetchMirror(method) ==
    IF isStateChanging(method)
    THEN mirrorAfterGetCSRFHeaders(ensureCSRFToken(csrfToken))
    ELSE csrfToken

\* a URL is the sequence of the pieces of its template literal
AppUrls == {<<"/api/v1/auth/logout">>, <<"/api/v1/clips/create">>}

CallerHeaders == {NoHeaders, ContentTypeJson}

PinIds == {"p1", "p2"}

\* createPlexPin() of the web page: a plain fetch
createPlexPinRequestViaSafeFetch ==
    [safeFetchRequest(<<"/api/v1/auth/pin">>, "POST", ContentTypeJson)
        EXCEPT !.via = "createPlexPin"]

createPlexPinRequest ==
    Fetch("createPlexPin", <<"/api/v1/auth/pin">>, "POST", ContentTypeJson, "",
          csrfToken)

\* checkPinStatus(pinId) of the web page: fetch(url) without options
checkPinStatusRequest(pinId) ==
    Fetch("checkPinStatus", <<"/api/v1/auth/pin/", pinId>>, "", NoHeaders, "",
          csrfToken)

\* ClipForgeAPI.createAuthPin() of the extension
createAuthPinRequest ==
    Fetch("createAuthPin", <<"/api/v1/auth/pin">>, "POST", ContentTypeJson,
          "omit", csrfToken)

\* ClipForgeAPI.checkAuthPin(pinId) of the extension
checkAuthPinRequest(pinId) ==
    Fetch("checkAuthPin", <<"/api/v1/auth/pin/", pinId>>, "GET", ContentTypeJson,
          "omit", csrfToken)

\* one of the four PIN functions is called and issues its request
PinRequest(req) ==
    /\ lastFetch' = req
    /\ UNCHANGED <<documentCookie, csrfToken, safeFetchPending>>
    /\ UNCHANGED notFetchVars

\* safeFetch(url, options) up to its await of fetch
SafeFetch(url, method, callerHeaders) ==
    /\ safeFetchPending < MaxInFlight
    /\ lastFetch' = safeFetchRequest(url, method, callerHeaders)
    /\ csrfToken' = safeFetchMirror(method)
    /\ safeFetchPending' = safeFetchPending + 1
    /\ UNCHANGED documentCookie
    /\ UNCHANGED notFetchVars

\* the browser stores the cookies a response sets before the page sees it
SetCookie(jar, v) ==
    LET others == SelectSeq(jar, LAMBDA p : p[1] # "csrf_token")
    IN  IF v = "" THEN jar ELSE Append(others, <<"csrf_token", v>>)

\* fetch resolves inside safeFetch: updateCSRFToken(response)
SafeFetchResponse(responseHeader, setCookie) ==
    /\ safeFetchPending > 0
    /\ safeFetchPending' = safeFetchPending - 1
    /\ documentCookie' = SetCookie(documentCookie, setCookie)
    /\ csrfToken' = updateCSRFToken(csrfToken, responseHeader)
    /\ UNCHANGED lastFetch
    /\ UNCHANGED notFetchVars

\* fetch rejects inside safeFetch: the error is logged and rethrown
SafeFetchError ==
    /\ safeFetchPending > 0
    /\ safeFetchPending' = safeFetchPending - 1
    /\ UNCHANGED <<documentCookie, csrfToken, lastFetch>>
    /\ UNCHANGED notFetchVars

\* the cookie changes outside the page's scripts (expiry, another tab, a
\* response to a plain fetch)
CookieChange(jar) ==
    /\ jar # documentCookie
    /\ documentCookie' = jar
    /\ UNCHANGED <<csrfToken, lastFetch, safeFetchPending>>
    /\ UNCHANGED notFetchVars

\* ------------------------------------------------ the resource token cache
MediaCallers == 1..MaxMediaCallers

\* the resources of the page, as (resourceId, resourceType): one id under two
\* types
Resources == {<<"c1", "video">>, <<"c1", "thumbnail">>}

\* the clock of the application page advances in steps of 25 minutes
MediaTimeStep == 25 * 60 * 1000

\* "expires in 50 minutes to be safe"
MediaTokenTtl == 50 * 60 * 1000

\* the backend may issue a different token on every request
TokenSerials == {1, 2}

cacheKeyWithoutType(resourceId, resourceType) == <<resourceId>>

\* `${resourceType}:${resourceId}`; no resource type contains a colon
cacheKey(resourceId, resourceType) == <<resourceType, ":", resourceId>>

\* a media token is a record naming the resource it was issued for; this one
\* stands for null
NullToken == [resourceId |-> "", resourceType |-> "", n |-> 0]

\* a caller that is not inside getMediaToken; logouts is the number of runs of
\* logout() that had ended when the call sent its request
IdleMediaCall ==
    [pc |-> "idle", resourceId |-> "", resourceType |-> "", logouts |-> 0]

\* no call of getMediaToken has returned yet
NoReturn ==
    [caller |-> 0, resourceId |-> "", resourceType |-> "", token |-> NullToken,
     fromCache |-> FALSE, seq |-> 0]

\* a return of getMediaToken; seq flips on every return, fromCache tells the
\* return of line 199 from the others
Return(c, resourceId, resourceType, token, fromCache) ==
    [caller |-> c, resourceId |-> resourceId, resourceType |-> resourceType,
     token |-> token, fromCache |-> fromCache, seq |-> 1 - lastReturn.seq]

\* the lifetime the backend gives a media token: 60 minutes
ServerTokenLifetime == 60 * 60 * 1000

\* cached && cached.expiresAt > Date.now()
cacheHitUntilExpiry(key) ==
    key \in DOMAIN mediaTokenCache /\ mediaTokenCache[key].expiresAt >= now

cacheHitReversed(key) ==
    key \in DOMAIN mediaTokenCache /\ mediaTokenCache[key].expiresAt < now

cacheHit(key) ==
    key \in DOMAIN mediaTokenCache /\ mediaTokenCache[key].expiresAt > now

\* mediaTokenCache.set(key, entry)
MapSet(map, key, entry) ==
    [k \in (DOMAIN map) \cup {key} |-> IF k = key THEN entry ELSE map[k]]

\* the request of getMediaToken(resourceId, resourceType)
mediaTokenRequest(resourceId, resourceType) ==
    [safeFetchRequest(<<"/api/v1/auth/media-token">>, "POST",
         [n \in {"Content-Type"} |-> "application/x-www-form-urlencoded"])
     EXCEPT !.body = [resource_id |-> resourceId, resource_type |-> resourceType]]

\* getMediaToken(resourceId, resourceType) up to its return from the cache or
\* to its await of safeFetch
GetMediaToken(c, resourceId, resourceType) ==
    LET key == cacheKey(resourceId, resourceType)
    IN  /\ mediaCall[c].pc = "idle"
        /\ IF cacheHit(key)
           THEN /\ lastReturn' = Return(c, resourceId, resourceType,
                                        mediaTokenCache[key].token, TRUE)
                /\ UNCHANGED <<mediaCall, lastFetch, csrfToken>>
           ELSE /\ mediaCall' = [mediaCall EXCEPT ![c] =
                       [pc |-> "fetching", resourceId |-> resourceId,
                        resourceType |-> resourceType,
                        logouts |-> logoutCall.runs]]
                /\ lastFetch' = mediaTokenRequest(resourceId, resourceType)
                /\ csrfToken' = safeFetchMirror("POST")
                /\ UNCHANGED lastReturn
        /\ UNCHANGED <<documentCookie, safeFetchPending, mediaTokenCache,
                       location, now>>
        /\ UNCHANGED notAppVars

\* response.ok: the token is cached for 50 minutes and returned
GetMediaTokenOk(c, n, responseHeader) ==
    LET call == mediaCall[c]
        key == cacheKey(call.resourceId, call.resourceType)
        token == [resourceId |-> call.resourceId,
                  resourceType |-> call.resourceType, n |-> n]
    IN  /\ call.pc = "fetching"
        /\ sessionValid
        /\ csrfToken' = updateCSRFToken(csrfToken, responseHeader)
        /\ mediaTokenCache' = MapSet(mediaTokenCache, key,
               [token |-> token, expiresAt |-> now + MediaTokenTtl])
        /\ mediaCall' = [mediaCall EXCEPT ![c] = IdleMediaCall]
        /\ lastReturn' = Return(c, call.resourceId, call.resourceType, token, FALSE)
        /\ UNCHANGED <<documentCookie, lastFetch, safeFetchPending, location, now>>
        /\ UNCHANGED notAppVars

\* response.status === 401: the page is sent to /login, null is returned
GetMediaToken401(c, responseHeader) ==
    LET call == mediaCall[c]
    IN  /\ call.pc = "fetching"
        /\ ~sessionValid
        /\ csrfToken' = updateCSRFToken(csrfToken, responseHeader)
        /\ location' = "/login"
        /\ mediaCall' = [mediaCall EXCEPT ![c] = IdleMediaCall]
        /\ lastReturn' = Return(c, call.resourceId, call.resourceType, NullToken,
                             FALSE)
        /\ UNCHANGED <<documentCookie, lastFetch, safeFetchPending,
                       mediaTokenCache, now>>
        /\ UNCHANGED notAppVars

GetMediaTokenFailedEvicting(c, responseHeader) ==
    LET call == mediaCall[c]
    IN  /\ call.pc = "fetching"
        /\ csrfToken' = updateCSRFToken(csrfToken, responseHeader)
        /\ mediaTokenCache' =
               [k \in (DOMAIN mediaTokenCache)
                         \ {cacheKey(call.resourceId, call.resourceType)} |->
                   mediaTokenCache[k]]
        /\ mediaCall' = [mediaCall EXCEPT ![c] = IdleMediaCall]
        /\ lastReturn' = Return(c, call.resourceId, call.resourceType, NullToken,
                             FALSE)
        /\ UNCHANGED <<documentCookie, lastFetch, safeFetchPending, location, now>>
        /\ UNCHANGED notAppVars

\* another non-2xx status: logged, null is returned
GetMediaTokenFailed(c, responseHeader) ==
    LET call == mediaCall[c]
    IN  /\ call.pc = "fetching"
        /\ csrfToken' = updateCSRFToken(csrfToken, responseHeader)
        /\ mediaCall' = [mediaCall EXCEPT ![c] = IdleMediaCall]
        /\ lastReturn' = Return(c, call.resourceId, call.resourceType, NullToken,
                             FALSE)
        /\ UNCHANGED <<documentCookie, lastFetch, safeFetchPending,
                       mediaTokenCache, location, now>>
        /\ UNCHANGED notAppVars

\* safeFetch throws (network error): caught, null is returned
GetMediaTokenThrew(c) ==
    LET call == mediaCall[c]
    IN  /\ call.pc = "fetching"
        /\ mediaCall' = [mediaCall EXCEPT ![c] = IdleMediaCall]
        /\ lastReturn' = Return(c, call.resourceId, call.resourceType, NullToken,
                             FALSE)
        /\ UNCHANGED <<documentCookie, csrfToken, lastFetch, safeFetchPending,
                       mediaTokenCache, location, now>>
        /\ UNCHANGED notAppVars

\* the session of the page ends at the backend (it expires, or the user logs
\* out elsewhere): from now on the media-token endpoint answers 401
SessionExpires ==
    /\ sessionValid
    /\ sessionValid' = FALSE
    /\ UNCHANGED <<fetchVars, mediaVars, playerVars, pageVars, clientVars,
                   extVars, webVars>>

\* time passes on the application page
MediaTick ==
    /\ now < MaxMediaTicks * MediaTimeStep
    /\ now' = now + MediaTimeStep
    /\ UNCHANGED <<fetchVars, mediaTokenCache, mediaCall, lastReturn, location>>
    /\ UNCHANGED notAppVars

\* ------------------------------------------------------------- the logout
\* logout() has not been called; runs counts the calls that have ended
NoLogout == [pc |-> "idle", runs |-> 0]

\* clearMediaTokenCache(): mediaTokenCache.clear()
clearMediaTokenCache == NoMap

\* logout() to its await: safeFetch('/api/v1/auth/logout', { method: 'POST' })
Logout ==
    /\ logoutCall.pc = "idle"
    /\ logoutCall.runs < MaxLogouts
    /\ safeFetchPending < MaxInFlight
    /\ lastFetch' = safeFetchRequest(<<"/api/v1/auth/logout">>, "POST", NoHeaders)
    /\ csrfToken' = safeFetchMirror("POST")
    /\ safeFetchPending' = safeFetchPending + 1
    /\ logoutCall' = [logoutCall EXCEPT !.pc = "requesting"]
    /\ UNCHANGED <<documentCookie, mediaVars>>
    /\ UNCHANGED <<playerVars, serverVars, clientVars, extVars, webVars>>

\* response.ok: the backend has ended the session; the cache is cleared and
\* the page is sent to /login
LogoutOk(responseHeader) ==
    /\ logoutCall.pc = "requesting"
    /\ safeFetchPending' = safeFetchPending - 1
    /\ csrfToken' = updateCSRFToken(csrfToken, responseHeader)
    /\ sessionValid' = FALSE
    /\ mediaTokenCache' = clearMediaTokenCache
    /\ location' = "/login"
    /\ logoutCall' = [pc |-> "idle", runs |-> logoutCall.runs + 1]
    /\ UNCHANGED <<documentCookie, lastFetch, mediaCall, lastReturn, now>>
    /\ UNCHANGED <<playerVars, clientVars, extVars, webVars>>

\* a response that is not ok: the cache is cleared and 'Logout failed' is shown
LogoutNotOk(responseHeader) ==
    /\ logoutCall.pc = "requesting"
    /\ safeFetchPending' = safeFetchPending - 1
    /\ csrfToken' = updateCSRFToken(csrfToken, responseHeader)
    /\ mediaTokenCache' = clearMediaTokenCache
    /\ logoutCall' = [pc |-> "idle", runs |-> logoutCall.runs + 1]
    /\ UNCHANGED <<documentCookie, lastFetch, mediaCall, lastReturn, location,
                   now>>
    /\ UNCHANGED <<playerVars, serverVars, clientVars, extVars, webVars>>

\* safeFetch throws: the catch block clears the cache and shows 'Logout
\* failed'; the backend may have ended the session before the connection broke
LogoutThrew ==
    /\ logoutCall.pc = "requesting"
    /\ safeFetchPending' = safeFetchPending - 1
    /\ sessionValid' \in {sessionValid, FALSE}
    /\ mediaTokenCache' = clearMediaTokenCache
    /\ logoutCall' = [pc |-> "idle", runs |-> logoutCall.runs + 1]
    /\ UNCHANGED <<documentCookie, csrfToken, lastFetch, mediaCall, lastReturn,
                   location, now>>
    /\ UNCHANGED <<playerVars, clientVars, extVars, webVars>>

\* ------------------------------------------------------- the video players
Players == 1..MaxPlayers

\* the clips of the page
ClipIds == {"c1"}

\* "expires in 5 minutes"
RecentlyCreatedTtl == 5 * 60 * 1000

\* the error codes of player.error(): MEDIA_ERR_NETWORK and
\* MEDIA_ERR_SRC_NOT_SUPPORTED
ErrorCodes == {2, 4}

\* no player: src is the token in the URL of the player's source, error the
\* code of player.error(), errors the error events of the player, evictions
\* and retries what handleMediaError has done for the player, alerts the
\* showAlert calls made for it
NoPlayer ==
    [pc |-> "none", resourceId |-> "", resourceType |-> "", src |-> NullToken,
     error |-> 0, errors |-> 0, evictions |-> 0, retries |-> 0, alerts |-> <<>>]

\* getMediaUrl(baseUrl, resourceId, resourceType, token), forDownload false:
\* the URL as its parts
getMediaUrl(baseUrl, token) ==
    IF token # NullToken THEN <<baseUrl, "?", "token=", token>> ELSE <<baseUrl>>

\* the value of the token parameter of a URL that getMediaUrl built
TokenIn(url) == IF Len(url) = 4 THEN url[4] ELSE NullToken

\* !secureVideoUrl
falsy(url) == url = <<"">>

\* the download URL of a clip
VideoUrl(clipId) == <<"/api/v1/clips/", clipId, "/download">>

\* mediaTokenCache.delete(key)
MapDelete(map, key) == [k \in (DOMAIN map) \ {key} |-> map[k]]

\* isClipRecentlyCreated(clipId): its result
isClipRecentlyCreatedNever(clipId) == FALSE

isClipRecentlyCreatedUntilExpiry(clipId) ==
    clipId \in DOMAIN recentlyCreatedClips /\ recentlyCreatedClips[clipId] >= now

isClipRecentlyCreated(clipId) ==
    clipId \in DOMAIN recentlyCreatedClips /\ recentlyCreatedClips[clipId] > now

\* isClipRecentlyCreated(clipId): recentlyCreatedClips after the call
recentlyCreatedClipsAfterQuery(clipId) ==
    IF clipId \in DOMAIN recentlyCreatedClips /\ ~isClipRecentlyCreated(clipId)
    THEN MapDelete(recentlyCreatedClips, clipId)
    ELSE recentlyCreatedClips

\* no call of isClipRecentlyCreated has returned yet
NoQuery == [clipId |-> "", expiresAt |-> 0, result |-> FALSE, seq |-> 0]

\* a return of isClipRecentlyCreated(clipId): expiresAt is what
\* recentlyCreatedClips.get(clipId) gave the call, 0 for undefined; seq flips
\* on every return
Query(clipId) ==
    [clipId |-> clipId,
     expiresAt |-> IF clipId \in DOMAIN recentlyCreatedClips
                   THEN recentlyCreatedClips[clipId] ELSE 0,
     result |-> isClipRecentlyCreated(clipId),
     seq |-> 1 - lastQuery.seq]

\* the clips a caller may ask isClipRecentlyCreated about
QueriedClipIds == {"c1", "c2"}

\* the clock advances in steps of two and a half minutes where the markers
\* are looked at on their own
MarkerTimeStep == 150000

\* isClipRecentlyCreated(clipId), called on its own
IsClipRecentlyCreated(clipId) ==
    /\ lastQuery' = Query(clipId)
    /\ recentlyCreatedClips' = recentlyCreatedClipsAfterQuery(clipId)
    /\ UNCHANGED <<player, mediaTokenCache, lastFetch, csrfToken, location, now>>
    /\ UNCHANGED notPlayerVars

\* two and a half minutes pass
MarkerTick ==
    /\ now < MaxMarkerTicks * MarkerTimeStep
    /\ now' = now + MarkerTimeStep
    /\ UNCHANGED <<recentlyCreatedClips, player, lastQuery, mediaTokenCache,
                   lastFetch, csrfToken, location>>
    /\ UNCHANGED notPlayerVars

\* error && (error.code === 4 || ...): the messages of player.error() hold
\* neither "401" nor "Unauthorized"
isAuthError(code) == code = 4

\* showAlert(message, title) for player p
Alert(pl, what) == [pl EXCEPT !.alerts = Append(@, what)]

\* initializeVideoJSPlayer(elementId, videoUrl, resourceId, resourceType):
\* a new player that loads videoUrl
NewPlayer(videoUrl, resourceId, resourceType) ==
    [NoPlayer EXCEPT !.pc = "loading", !.resourceId = resourceId,
                     !.resourceType = resourceType, !.src = TokenIn(videoUrl)]

\* markClipAsRecentlyCreated(clipId)
MarkClipAsRecentlyCreated(clipId) ==
    /\ recentlyCreatedClips' =
           MapSet(recentlyCreatedClips, clipId, now + RecentlyCreatedTtl)
    /\ UNCHANGED <<player, lastQuery, mediaTokenCache, lastFetch, csrfToken,
                   location, now>>
    /\ UNCHANGED notPlayerVars

\* previewClip(videoUrl, title, clipId) to the await inside getMediaToken,
\* or, when the token is cached, to the player's creation
PreviewClip(p, clipId) ==
    LET key == cacheKey(clipId, "video")
        secureVideoUrl == getMediaUrl(VideoUrl(clipId), mediaTokenCache[key].token)
    IN  /\ player[p].pc \in {"none", "playing", "failed"}
        /\ IF cacheHit(key)
           THEN /\ player' = [player EXCEPT ![p] =
                       IF falsy(secureVideoUrl)
                       THEN Alert(NoPlayer,
                                IF isClipRecentlyCreated(clipId)
                                THEN "Video Not Ready" ELSE "Error")
                       ELSE NewPlayer(secureVideoUrl, clipId, "video")]
                /\ recentlyCreatedClips' =
                       IF falsy(secureVideoUrl)
                       THEN recentlyCreatedClipsAfterQuery(clipId)
                       ELSE recentlyCreatedClips
                /\ lastQuery' =
                       IF falsy(secureVideoUrl) THEN Query(clipId) ELSE lastQuery
                /\ UNCHANGED <<lastFetch, csrfToken>>
           ELSE /\ player' = [player EXCEPT ![p] =
                       [NoPlayer EXCEPT !.pc = "opening", !.resourceId = clipId,
                                        !.resourceType = "video"]]
                /\ lastFetch' = mediaTokenRequest(clipId, "video")
                /\ csrfToken' = safeFetchMirror("POST")
                /\ UNCHANGED <<recentlyCreatedClips, lastQuery>>
        /\ UNCHANGED <<mediaTokenCache, location, now>>
        /\ UNCHANGED notPlayerVars

\* previewClip after getMediaToken's request: with status 200 the token is
\* cached; with 401 the page is sent to /login; then getMediaUrl builds the
\* URL, with the token if there is one, and the player is created
PreviewClipToken(p, status, n) ==
    LET pl == player[p]
        key == cacheKey(pl.resourceId, pl.resourceType)
        token == IF status = 200
                 THEN [resourceId |-> pl.resourceId,
                       resourceType |-> pl.resourceType, n |-> n]
                 ELSE NullToken
        secureVideoUrl == getMediaUrl(VideoUrl(pl.resourceId), token)
    IN  /\ pl.pc = "opening"
        /\ status = 200 => sessionValid
        /\ status = 401 => ~sessionValid
        /\ mediaTokenCache' =
               IF status = 200
               THEN MapSet(mediaTokenCache, key,
                        [token |-> token, expiresAt |-> now + MediaTokenTtl])
               ELSE mediaTokenCache
        /\ location' = IF status = 401 THEN "/login" ELSE location
        /\ player' = [player EXCEPT ![p] =
               IF falsy(secureVideoUrl)
               THEN Alert(NoPlayer,
                        IF isClipRecentlyCreated(pl.resourceId)
                        THEN "Video Not Ready" ELSE "Error")
               ELSE NewPlayer(secureVideoUrl, pl.resourceId, pl.resourceType)]
        /\ recentlyCreatedClips' =
               IF falsy(secureVideoUrl)
               THEN recentlyCreatedClipsAfterQuery(pl.resourceId)
               ELSE recentlyCreatedClips
        /\ lastQuery' =
               IF falsy(secureVideoUrl) THEN Query(pl.resourceId) ELSE lastQuery
        /\ UNCHANGED <<lastFetch, csrfToken, now>>
        /\ UNCHANGED notPlayerVars

\* the player loads its source
LoadSucceeds(p) ==
    /\ player[p].pc = "loading"
    /\ player' = [player EXCEPT ![p] = [@ EXCEPT !.pc = "playing"]]
    /\ UNCHANGED <<recentlyCreatedClips, lastQuery, mediaTokenCache, lastFetch,
                   csrfToken, location, now>>
    /\ UNCHANGED notPlayerVars

\* the player fails to load its source and fires 'error': the handler of
\* setupVideoPlayerErrorHandling, to its end or to the await inside
\* handleMediaError's getMediaToken, which finds the cache entry deleted
PlayerError(p, code) ==
    LET pl == player[p]
        key == cacheKey(pl.resourceId, pl.resourceType)
        failed == [pl EXCEPT !.pc = "failed", !.error = code, !.errors = @ + 1]
    IN  /\ pl.pc = "loading"
        /\ pl.errors < MaxLoadFailures
        /\ IF code # 4
           THEN /\ player' = [player EXCEPT ![p] = failed]
                /\ UNCHANGED <<recentlyCreatedClips, lastQuery, mediaTokenCache,
                               lastFetch, csrfToken>>
           ELSE IF isClipRecentlyCreated(pl.resourceId)
           THEN /\ player' = [player EXCEPT ![p] = Alert(failed, "Video Not Ready")]
                /\ lastQuery' = Query(pl.resourceId)
                /\ UNCHANGED <<recentlyCreatedClips, mediaTokenCache, lastFetch,
                               csrfToken>>
           ELSE IF isAuthError(code)
           THEN /\ recentlyCreatedClips' = recentlyCreatedClipsAfterQuery(pl.resourceId)
                /\ lastQuery' = Query(pl.resourceId)
                /\ mediaTokenCache' = MapDelete(mediaTokenCache, key)
                /\ lastFetch' = mediaTokenRequest(pl.resourceId, pl.resourceType)
                /\ csrfToken' = safeFetchMirror("POST")
                /\ player' = [player EXCEPT ![p] =
                       [pl EXCEPT !.pc = "refetching", !.error = code,
                                  !.errors = @ + 1,
                                  !.evictions = @ + 1]]
           ELSE /\ recentlyCreatedClips' = recentlyCreatedClipsAfterQuery(pl.resourceId)
                /\ lastQuery' = Query(pl.resourceId)
                /\ player' = [player EXCEPT ![p] = Alert(failed, "Error")]
                /\ UNCHANGED <<mediaTokenCache, lastFetch, csrfToken>>
        /\ UNCHANGED <<location, now>>
        /\ UNCHANGED notPlayerVars

\* handleMediaError after getMediaToken's request: with status 200 the token
\* is cached and retryFunction(newToken) gives the player a new source;
\* otherwise 'Session expired' and then 'Failed to load video' are shown
HandleMediaErrorToken(p, status, n) ==
    LET pl == player[p]
        key == cacheKey(pl.resourceId, pl.resourceType)
        newToken == [resourceId |-> pl.resourceId,
                     resourceType |-> pl.resourceType, n |-> n]
        newUrl == getMediaUrl(VideoUrl(pl.resourceId), newToken)
    IN  /\ pl.pc = "refetching"
        /\ status = 200 => sessionValid
        /\ status = 401 => ~sessionValid
        /\ IF status = 200
           THEN /\ mediaTokenCache' = MapSet(mediaTokenCache, key,
                       [token |-> newToken, expiresAt |-> now + MediaTokenTtl])
                /\ player' = [player EXCEPT ![p] =
                       [pl EXCEPT !.pc = "loading", !.error = 0,
                                  !.src = TokenIn(newUrl),
                                  !.retries = @ + 1]]
                /\ UNCHANGED location
           ELSE /\ player' = [player EXCEPT ![p] =
                       Alert(Alert([pl EXCEPT !.pc = "failed"], "Session expired"),
                             "Error")]
                /\ location' = IF status = 401 THEN "/login" ELSE location
                /\ UNCHANGED mediaTokenCache
        /\ UNCHANGED <<recentlyCreatedClips, lastQuery, lastFetch, csrfToken, now>>
        /\ UNCHANGED notPlayerVars

\* time passes while the players are on the page
PlayerTick ==
    /\ now < MaxPlayerTicks * MediaTimeStep
    /\ now' = now + MediaTimeStep
    /\ UNCHANGED <<recentlyCreatedClips, player, lastQuery, mediaTokenCache,
                   lastFetch, csrfToken, location>>
    /\ UNCHANGED notPlayerVars

\* ------------------------------------------- the extension: the handshake
Handshakes == 1..MaxHandshakes

\* a call of initiateAuth that has not started
IdleAuth ==
    [pc |-> "idle", pinId |-> "", attempts |-> 0, inflight |-> 0, token |-> "",
     accessToken |-> "", error |-> "", tabOpen |-> FALSE, tokenSeen |-> "",
     writes |-> 0]

\* ------------------------------------------- the extension: credential store
\* the provider (Plex) token the backend reports for a PIN once it is authorized
TokenOf(pinId) == IF pinId = "p1" THEN "ptk_1" ELSE "ptk_2"

\* the access tokens /auth/signin may answer with for a provider token: a new
\* one may be minted on every exchange
AccessTokens(plexToken) ==
    IF plexToken = "ptk_1" THEN {"at_1a", "at_1b"} ELSE {"at_2a", "at_2b"}

\* the clock of the extension advances in steps of four days
ExtTimeStep == 4 * 24 * 60 * 60 * 1000

\* tokenExpiry: Date.now() + (7 * 24 * 60 * 60 * 1000)
TokenLifetime == 7 * 24 * 60 * 60 * 1000

\* chrome.storage.local without the three keys
NoSession == [authToken |-> "", plexToken |-> "", tokenExpiry |-> 0]

\* tokenData of saveTokens(authToken, plexToken)
tokenDataSwapped(authToken, plexToken) ==
    [authToken |-> plexToken, plexToken |-> authToken,
     tokenExpiry |-> now + TokenLifetime]

tokenDataWithoutLifetime(authToken, plexToken) ==
    [authToken |-> authToken, plexToken |-> plexToken, tokenExpiry |-> now]

tokenData(authToken, plexToken) ==
    [authToken |-> authToken, plexToken |-> plexToken,
     tokenExpiry |-> now + TokenLifetime]

isExpiredWheneverSet(data) == data.tokenExpiry # 0

\* data.tokenExpiry && data.tokenExpiry < Date.now()
isExpired(data) == data.tokenExpiry # 0 /\ data.tokenExpiry < now

GetCallers == 1..MaxGetCallers

\* a caller that is not inside getStoredTokens; first is the data of the
\* call's first read, refreshed / refreshFailed / clobbered tell what happened
\* during the call
IdleGetCall ==
    [pc |-> "idle", data |-> NoSession, first |-> NoSession, plexToken |-> "",
     accessToken |-> "", refreshed |-> FALSE, refreshFailed |-> FALSE,
     clobbered |-> FALSE]

\* an operation other than caller g's own writes chrome.storage.local: the
\* callers that have saved and not yet read again note it
Clobber(calls, g) ==
    [x \in GetCallers |->
        IF x # g /\ calls[x].pc = "refreshSaving"
        THEN [calls[x] EXCEPT !.clobbered = TRUE]
        ELSE calls[x]]

\* getStoredTokens() to its await: chrome.storage.local.get is issued and
\* reads the three keys
GetStoredTokens(g) ==
    /\ getCall[g].pc \in {"idle", "returned", "raised"}
    /\ getCall' = [getCall EXCEPT ![g] =
           [IdleGetCall EXCEPT !.pc = "read", !.data = storage, !.first = storage]]
    /\ UNCHANGED <<storage, apiToken, apiPlexToken, pollInterval, timers, auth,
                   logoutPc, now>>
    /\ UNCHANGED notExtVars

\* getStoredTokens() after the read: return data, or enter refreshTokens(),
\* whose first await reads plexToken
GetStoredTokensRead(g) ==
    /\ getCall[g].pc = "read"
    /\ IF isExpired(getCall[g].data)
       THEN getCall' = [getCall EXCEPT ![g] =
                [@ EXCEPT !.pc = "refreshRead", !.plexToken = storage.plexToken]]
       ELSE getCall' = [getCall EXCEPT ![g] = [@ EXCEPT !.pc = "returned"]]
    /\ UNCHANGED <<storage, apiToken, apiPlexToken, pollInterval, timers, auth,
                   logoutPc, now>>
    /\ UNCHANGED notExtVars

\* refreshTokens() after its read: without a plexToken it throws, and the
\* catch block enters clearTokens(), which removes the three keys; otherwise
\* api.authenticate(tokens.plexToken) sends the sign-in request
RefreshTokensRead(g) ==
    /\ getCall[g].pc = "refreshRead"
    /\ IF getCall[g].plexToken = ""
       THEN /\ storage' = NoSession
            /\ getCall' = [Clobber(getCall, g) EXCEPT ![g] =
                   [@ EXCEPT !.pc = "refreshClearing", !.refreshFailed = TRUE]]
       ELSE /\ getCall' = [getCall EXCEPT ![g] = [@ EXCEPT !.pc = "refreshSignin"]]
            /\ UNCHANGED storage
    /\ UNCHANGED <<apiToken, apiPlexToken, pollInterval, timers, auth,
                   logoutPc, now>>
    /\ UNCHANGED notExtVars

\* the sign-in request succeeds: authenticate() sets api.token, saveTokens()
\* issues chrome.storage.local.set(tokenData)
RefreshSigninOk(g, accessToken) ==
    /\ getCall[g].pc = "refreshSignin"
    /\ accessToken \in AccessTokens(getCall[g].plexToken)
    /\ apiToken' = accessToken
    /\ storage' = tokenData(accessToken, getCall[g].plexToken)
    /\ getCall' = [getCall EXCEPT ![g] =
           [@ EXCEPT !.pc = "refreshSaving", !.accessToken = accessToken,
                     !.refreshed = TRUE]]
    /\ UNCHANGED <<apiPlexToken, pollInterval, timers, auth, logoutPc, now>>
    /\ UNCHANGED notExtVars

\* the sign-in request fails: the catch block enters clearTokens()
RefreshSigninFailed(g) ==
    /\ getCall[g].pc = "refreshSignin"
    /\ storage' = NoSession
    /\ getCall' = [Clobber(getCall, g) EXCEPT ![g] =
           [@ EXCEPT !.pc = "refreshClearing", !.refreshFailed = TRUE]]
    /\ UNCHANGED <<apiToken, apiPlexToken, pollInterval, timers, auth,
                   logoutPc, now>>
    /\ UNCHANGED notExtVars

\* saveTokens() after the write: api.setTokens(); refreshTokens() returns and
\* getStoredTokens() calls itself, which reads the three keys again
RefreshSaved(g) ==
    /\ getCall[g].pc = "refreshSaving"
    /\ apiToken' = getCall[g].accessToken
    /\ apiPlexToken' = getCall[g].plexToken
    /\ getCall' = [getCall EXCEPT ![g] = [@ EXCEPT !.pc = "read", !.data = storage]]
    /\ UNCHANGED <<storage, pollInterval, timers, auth, logoutPc, now>>
    /\ UNCHANGED notExtVars

\* clearTokens() after the removal, inside refreshTokens()'s catch block: the
\* api's tokens are reset and the error is thrown again, out of
\* getStoredTokens()
RefreshCleared(g) ==
    /\ getCall[g].pc = "refreshClearing"
    /\ apiToken' = ""
    /\ apiPlexToken' = ""
    /\ getCall' = [getCall EXCEPT ![g] = [@ EXCEPT !.pc = "raised"]]
    /\ UNCHANGED <<storage, pollInterval, timers, auth, logoutPc, now>>
    /\ UNCHANGED notExtVars

\* isAuthenticated() on the outcome of getStoredTokens()
isAuthenticated(call) ==
    IF call.pc = "raised" THEN "raised"
    ELSE IF call.data.authToken # "" /\ call.data.plexToken # "" THEN "true"
    ELSE "false"

\* handleLogout: clearTokens() to its await: the three keys are removed
ClearTokens ==
    /\ logoutPc = "idle"
    /\ logoutPc' = "clearing"
    /\ storage' = NoSession
    /\ getCall' = Clobber(getCall, 0)
    /\ UNCHANGED <<apiToken, apiPlexToken, pollInterval, timers, auth, now>>
    /\ UNCHANGED notExtVars

\* clearTokens() after the removal
ClearTokensDone ==
    /\ logoutPc = "clearing"
    /\ logoutPc' = "idle"
    /\ apiToken' = ""
    /\ apiPlexToken' = ""
    /\ UNCHANGED <<storage, pollInterval, timers, auth, getCall, now>>
    /\ UNCHANGED notExtVars

\* days pass in the extension; a call of getStoredTokens takes no such time
ExtTick ==
    /\ now < MaxExtTicks * ExtTimeStep
    /\ \A g \in GetCallers : getCall[g].pc \in {"idle", "returned", "raised"}
    /\ logoutPc = "idle"
    /\ now' = now + ExtTimeStep
    /\ UNCHANGED extVars
    /\ UNCHANGED notExtVars

\* pollForToken(pinId, maxAttempts = 60)
maxAttempts == 60

\* the PIN id the backend gives the h-th handshake
PinOf(h) == IF h = 1 THEN "p1" ELSE "p2"

\* attempts > maxAttempts
attemptsExhausted(attempts) == attempts > maxAttempts

\* clearInterval(this.pollInterval): the timer that is cleared is the one the
\* field holds now, whoever set it
clearPollInterval == timers \ {pollInterval}

\* initiateAuth() to its first await: createAuthPin() sends its request
InitiateAuth(h) ==
    /\ auth[h].pc = "idle"
    /\ \A x \in Handshakes : x < h => auth[x].pc # "idle"
    /\ auth' = [auth EXCEPT ![h] = [@ EXCEPT !.pc = "creatingPin"]]
    /\ UNCHANGED <<storage, apiToken, apiPlexToken, pollInterval, timers,
                   getCall, logoutPc, now>>
    /\ UNCHANGED notExtVars

\* createAuthPin() returns the PIN: chrome.tabs.create is called
PinCreated(h) ==
    /\ auth[h].pc = "creatingPin"
    /\ auth' = [auth EXCEPT ![h] =
           [@ EXCEPT !.pc = "creatingTab", !.pinId = PinOf(h)]]
    /\ UNCHANGED <<storage, apiToken, apiPlexToken, pollInterval, timers,
                   getCall, logoutPc, now>>
    /\ UNCHANGED notExtVars

\* createAuthPin() throws: initiateAuth logs the error and throws it again
PinFailed(h) ==
    /\ auth[h].pc = "creatingPin"
    /\ auth' = [auth EXCEPT ![h] = [@ EXCEPT !.pc = "failed", !.error = "pin"]]
    /\ UNCHANGED <<storage, apiToken, apiPlexToken, pollInterval, timers,
                   getCall, logoutPc, now>>
    /\ UNCHANGED notExtVars

\* the tab is open: pollForToken() sets its interval timer and stores it in
\* this.pollInterval
TabCreated(h) ==
    /\ auth[h].pc = "creatingTab"
    /\ auth' = [auth EXCEPT ![h] = [@ EXCEPT !.pc = "polling", !.tabOpen = TRUE]]
    /\ pollInterval' = h
    /\ timers' = timers \cup {h}
    /\ UNCHANGED <<storage, apiToken, apiPlexToken, getCall, logoutPc, now>>
    /\ UNCHANGED notExtVars

\* the interval callback of handshake h runs: beyond maxAttempts it clears
\* this.pollInterval and rejects (initiateAuth then throws); otherwise it sends
\* a status poll.  attempts is kept at maxAttempts + 1 once it has passed
\* maxAttempts: every larger value takes the same branch.
\* the promise of pollForToken is pending: resolve and reject have an effect
\* (both are no-ops on a settled promise)
settledOrPending(call) == TRUE

pending(call) == call.pc = "polling"

PollTick(h) ==
    LET attempts == IF attemptsExhausted(auth[h].attempts)
                    THEN auth[h].attempts
                    ELSE auth[h].attempts + 1
    IN  /\ h \in timers
        /\ IF attemptsExhausted(attempts)
           THEN /\ timers' = clearPollInterval
                /\ auth' = [auth EXCEPT ![h] =
                       IF pending(@)
                       THEN [@ EXCEPT !.attempts = attempts, !.pc = "failed",
                                      !.error = "timeout"]
                       ELSE [@ EXCEPT !.attempts = attempts]]
           ELSE /\ auth[h].inflight < MaxPollsInFlight
                /\ auth' = [auth EXCEPT ![h] =
                       [@ EXCEPT !.attempts = attempts, !.inflight = @ + 1]]
                /\ UNCHANGED timers
        /\ UNCHANGED <<storage, apiToken, apiPlexToken, pollInterval,
                       getCall, logoutPc, now>>
        /\ UNCHANGED notExtVars

\* a status poll returns the provider token: this.pollInterval is cleared
\* and the promise resolved; if it was pending, initiateAuth goes on: it
\* removes the tab and api.authenticate(token) sends the sign-in request
PollToken(h) ==
    /\ auth[h].inflight > 0
    /\ timers' = clearPollInterval
    /\ auth' = [auth EXCEPT ![h] =
           IF pending(@)
           THEN [@ EXCEPT !.inflight = @ - 1, !.tokenSeen = TokenOf(auth[h].pinId),
                          !.token = TokenOf(auth[h].pinId), !.pc = "signin",
                          !.tabOpen = FALSE]
           ELSE [@ EXCEPT !.inflight = @ - 1, !.tokenSeen = TokenOf(auth[h].pinId)]]
    /\ UNCHANGED <<storage, apiToken, apiPlexToken, pollInterval,
                   getCall, logoutPc, now>>
    /\ UNCHANGED notExtVars

\* a status poll returns without a token (404, or no auth_token), or fails
\* (another status, a network error: caught and logged)
PollNothing(h) ==
    /\ auth[h].inflight > 0
    /\ auth' = [auth EXCEPT ![h] = [@ EXCEPT !.inflight = @ - 1]]
    /\ UNCHANGED <<storage, apiToken, apiPlexToken, pollInterval, timers,
                   getCall, logoutPc, now>>
    /\ UNCHANGED notExtVars

\* the sign-in request succeeds: authenticate() sets api.token, saveTokens()
\* issues chrome.storage.local.set(tokenData)
SigninOk(h, accessToken) ==
    /\ auth[h].pc = "signin"
    /\ accessToken \in AccessTokens(auth[h].token)
    /\ apiToken' = accessToken
    /\ storage' = tokenData(accessToken, auth[h].token)
    /\ getCall' = Clobber(getCall, 0)
    /\ auth' = [auth EXCEPT ![h] =
           [@ EXCEPT !.pc = "saving", !.accessToken = accessToken,
                     !.writes = @ + 1]]
    /\ UNCHANGED <<apiPlexToken, pollInterval, timers, logoutPc, now>>
    /\ UNCHANGED notExtVars

\* the sign-in request fails: initiateAuth logs the error and throws it again
SigninFailed(h) ==
    /\ auth[h].pc = "signin"
    /\ auth' = [auth EXCEPT ![h] = [@ EXCEPT !.pc = "failed", !.error = "signin"]]
    /\ UNCHANGED <<storage, apiToken, apiPlexToken, pollInterval, timers,
                   getCall, logoutPc, now>>
    /\ UNCHANGED notExtVars

\* saveTokens() after the write: api.setTokens(); initiateAuth returns
\* { success: true, user }
TokensSaved(h) ==
    /\ auth[h].pc = "saving"
    /\ apiToken' = auth[h].accessToken
    /\ apiPlexToken' = auth[h].token
    /\ auth' = [auth EXCEPT ![h] = [@ EXCEPT !.pc = "done"]]
    /\ UNCHANGED <<storage, pollInterval, timers, getCall, logoutPc, now>>
    /\ UNCHANGED notExtVars

\* ------------------------------------------- the extension: the API client
\* chrome.runtime.getURL(''): the extension's own origin
ExtensionOrigin == "chrome-extension://clipforge/"

\* the methods of ClipForgeAPI that go through request(), with what they pass
ApiEndpoints ==
    {<<"createQuickClip", <<"/api/v1/clips/create">>, "POST">>,
     <<"getCurrentSession", <<"/api/v1/sessions/current">>, "GET">>,
     <<"getRecentClips", <<"/api/v1/clips/recent?limit=", "5">>, "GET">>,
     <<"getUserInfo", <<"/api/v1/users/me">>, "GET">>}

\* what a pending call of request() does with the response: request() itself
\* returns it, authenticate() looks for access_token first
RequestKinds == {"request", "authenticate"}

NoRequests == [k \in RequestKinds |-> 0]

requestsInFlight == requestPending["request"] + requestPending["authenticate"]

\* const headers = { 'Content-Type': ..., 'Origin': ..., before the spread
requestDefaultHeaders ==
    [n \in {"Content-Type", "Origin"} |->
        IF n = "Origin" THEN ExtensionOrigin ELSE "application/json"]

requestHeadersWithoutBearer(optionHeaders) ==
    Spread(requestDefaultHeaders, optionHeaders)

\* the headers of request(endpoint, options): the defaults, ...options.headers,
\* then if (this.token) headers['Authorization'] = `Bearer ${this.token}`
requestHeaders(optionHeaders) ==
    LET headers == Spread(requestDefaultHeaders, optionHeaders)
    IN  IF apiToken # ""
        THEN Spread(headers, [n \in {"Authorization"} |-> <<"Bearer ", apiToken>>])
        ELSE headers

\* the one fetch(url, {...options, headers, credentials, mode}) of request()
requestRequest(endpoint, method, optionHeaders) ==
    Fetch("request", endpoint, method, requestHeaders(optionHeaders),
          "include", csrfToken)

\* request(endpoint, options) up to its await of fetch
Request(kind, endpoint, method) ==
    /\ requestsInFlight < MaxRequestsInFlight
    /\ lastFetch' = requestRequest(endpoint, method, NoHeaders)
    /\ requestPending' = [requestPending EXCEPT ![kind] = @ + 1]
    /\ UNCHANGED <<documentCookie, csrfToken, safeFetchPending>>
    /\ UNCHANGED <<mediaVars, playerVars, serverVars, pageVars, extVars, webVars>>

\* createQuickClip, getCurrentSession, getRecentClips, getUserInfo
ApiCall(e) == Request("request", e[2], e[3])

\* authenticate(plexToken): request('/api/v1/auth/signin', { method: 'POST' })
Authenticate == Request("authenticate", <<"/api/v1/auth/signin">>, "POST")

RequestSettlesAndRetries ==
    /\ requestPending["request"] > 0
    /\ lastFetch' = requestRequest(<<"/api/v1/users/me">>, "GET", NoHeaders)
    /\ UNCHANGED <<documentCookie, csrfToken, safeFetchPending, requestPending>>
    /\ UNCHANGED <<mediaVars, playerVars, serverVars, pageVars, extVars, webVars>>

\* the fetch of a request() settles: the body is returned, or an Error is
\* thrown for a response that is not ok and rethrown for a rejected fetch
RequestSettles ==
    /\ requestPending["request"] > 0
    /\ requestPending' = [requestPending EXCEPT !["request"] = @ - 1]
    /\ UNCHANGED <<fetchVars, mediaVars, playerVars, serverVars, pageVars, extVars,
                   webVars>>

\* authenticate() after its request: access is the access_token of the
\* response, "" for a response without one
AuthenticateResponse(access) ==
    /\ requestPending["authenticate"] > 0
    /\ requestPending' = [requestPending EXCEPT !["authenticate"] = @ - 1]
    /\ apiToken' = IF access # "" THEN access ELSE apiToken
    /\ UNCHANGED <<storage, apiPlexToken, pollInterval, timers, auth, getCall,
                   logoutPc>>
    /\ UNCHANGED <<fetchVars, mediaVars, playerVars, serverVars, pageVars, webVars>>

\* the request of authenticate() throws
AuthenticateError ==
    /\ requestPending["authenticate"] > 0
    /\ requestPending' = [requestPending EXCEPT !["authenticate"] = @ - 1]
    /\ UNCHANGED <<fetchVars, mediaVars, playerVars, serverVars, pageVars, extVars,
                   webVars>>

\* ------------------------------------------- the web application: the handshake
WebHandshakes == 1..MaxWebHandshakes

\* a call of plexOAuth that has not been made; window is the popup the call
\* got from popupCenter, callbacks the calls of successCallback and
\* errorCallback it has made, in order
IdleWeb ==
    [pc |-> "idle", pinId |-> 0, window |-> 0, inflight |-> 0,
     callbacks |-> <<>>]

NoTick == [h |-> 0, outcome |-> "", seq |-> 0]

\* one run of the interval callback of handshake h
Tick(h, outcome) == [h |-> h, outcome |-> outcome, seq |-> 1 - lastTick.seq]

\* pinData.id of the h-th call
WebPinOf(h) == h

\* w.closed
closed(w) == w # popup

\* closePlexOAuthWindow()
closePlexOAuthWindow ==
    /\ popup' = IF plexOAuthWindow # 0 /\ ~closed(plexOAuthWindow) THEN 0 ELSE popup
    /\ popupPin' = IF plexOAuthWindow # 0 /\ ~closed(plexOAuthWindow) THEN 0 ELSE popupPin
    /\ plexOAuthWindow' = 0
    /\ webTimers' = webTimers \ {pinPolling}
    /\ pinPolling' = 0

\* successCallback / errorCallback of handshake h is called
Callback(h, what) ==
    [web EXCEPT ![h] = [@ EXCEPT !.callbacks = Append(@, what)]]

\* plexOAuth(successCallback, errorCallback) to its await: the earlier popup
\* and timer are closed and the request that creates the PIN is sent
PlexOAuth(h) ==
    /\ webLocation = "login"
    /\ web[h].pc = "idle"
    /\ IF h = 1 THEN TRUE ELSE web[h - 1].pc # "idle"
    /\ closePlexOAuthWindow
    /\ web' = [web EXCEPT ![h] = [@ EXCEPT !.pc = "creatingPin"]]
    /\ UNCHANGED <<authorized, webTimeouts, lastTick, userClosed,
                   sessionStorage, webLocation>>
    /\ UNCHANGED notWebVars

\* createPlexPin() returned pinData and popupCenter() a window: the window
\* named Plex-OAuth if one is open, a new one otherwise; the interval and the
\* timeout are set
PopupOpened(h) ==
    /\ webLocation = "login"
    /\ web[h].pc = "creatingPin"
    /\ LET w == IF popup # 0 THEN popup ELSE h
       IN  /\ plexOAuthWindow' = w
           /\ popup' = w
           /\ web' = [web EXCEPT ![h] =
                  [@ EXCEPT !.pc = "polling", !.pinId = WebPinOf(h), !.window = w]]
    /\ popupPin' = WebPinOf(h)
    /\ pinPolling' = h
    /\ webTimers' = webTimers \cup {h}
    /\ webTimeouts' = Append(webTimeouts, h)
    /\ UNCHANGED <<authorized, lastTick, userClosed, sessionStorage, webLocation>>
    /\ UNCHANGED notWebVars

\* createPlexPin() returned pinData and popupCenter() null (a mobile device,
\* or the popup was blocked): the page is left for the provider's
\* (window.location.href = oauthUrl)
Redirected(h) ==
    /\ webLocation = "login"
    /\ web[h].pc = "creatingPin"
    /\ popup = 0
    /\ plexOAuthWindow' = 0
    /\ sessionStorage' = [plex_auth_pin_id |-> WebPinOf(h),
                          plex_auth_redirect |-> "true"]
    /\ webLocation' = "plex"
    /\ web' = [web EXCEPT ![h] =
           [@ EXCEPT !.pc = "redirected", !.pinId = WebPinOf(h)]]
    /\ UNCHANGED <<pinPolling, popup, popupPin, authorized, webTimers,
                   webTimeouts, lastTick, userClosed>>
    /\ UNCHANGED notWebVars

PinNotCreatedUnreported(h) ==
    /\ webLocation = "login"
    /\ web[h].pc = "creatingPin"
    /\ web' = [web EXCEPT ![h] = [@ EXCEPT !.pc = "failed"]]
    /\ UNCHANGED <<plexOAuthWindow, pinPolling, popup, popupPin, authorized,
                   webTimers, webTimeouts, lastTick, userClosed,
                   sessionStorage, webLocation>>
    /\ UNCHANGED notWebVars

\* createPlexPin() returned null: plexOAuth throws, and its catch block
\* closes the popup and calls errorCallback(error.message)
PinNotCreated(h) ==
    /\ webLocation = "login"
    /\ web[h].pc = "creatingPin"
    /\ closePlexOAuthWindow
    /\ web' = [Callback(h, "Failed to create authentication PIN") EXCEPT ![h] =
           [@ EXCEPT !.pc = "failed"]]
    /\ UNCHANGED <<authorized, webTimeouts, lastTick, userClosed,
                   sessionStorage, webLocation>>
    /\ UNCHANGED notWebVars

\* the interval callback of handshake h, to its await or its end:
\* plexOAuthWindow.closed throws on null; a closed popup is reported as
\* cancelled; otherwise checkPinStatus(pinData.id) sends a status poll
WebTick(h) ==
    /\ webLocation = "login"
    /\ h \in webTimers
    /\ IF plexOAuthWindow = 0
       THEN /\ lastTick' = Tick(h, "threw")
            /\ UNCHANGED <<plexOAuthWindow, pinPolling, popup, popupPin,
                           webTimers, web>>
       ELSE IF closed(plexOAuthWindow)
       THEN /\ lastTick' = Tick(h, "cancelled")
            /\ closePlexOAuthWindow
            /\ web' = Callback(h, "Authentication cancelled")
       ELSE /\ web[h].inflight < MaxWebPollsInFlight
            /\ lastTick' = Tick(h, "polled")
            /\ web' = [web EXCEPT ![h] = [@ EXCEPT !.inflight = @ + 1]]
            /\ UNCHANGED <<plexOAuthWindow, pinPolling, popup, popupPin, webTimers>>
    /\ UNCHANGED <<authorized, webTimeouts, userClosed, sessionStorage, webLocation>>
    /\ UNCHANGED notWebVars

\* a status poll of handshake h returns the token of its PIN, which the user
\* has authorized: the popup is closed and successCallback is called
WebPollToken(h) ==
    /\ webLocation = "login"
    /\ web[h].inflight > 0
    /\ web[h].pinId \in authorized
    /\ closePlexOAuthWindow
    /\ web' = [Callback(h, "success") EXCEPT ![h] =
           [@ EXCEPT !.inflight = @ - 1]]
    /\ UNCHANGED <<authorized, webTimeouts, lastTick, userClosed,
                   sessionStorage, webLocation>>
    /\ UNCHANGED notWebVars

\* a status poll of handshake h returns without a token, or fails
WebPollNothing(h) ==
    /\ webLocation = "login"
    /\ web[h].inflight > 0
    /\ web' = [web EXCEPT ![h] = [@ EXCEPT !.inflight = @ - 1]]
    /\ UNCHANGED <<plexOAuthWindow, pinPolling, popup, popupPin, authorized,
                   webTimers, webTimeouts, lastTick, userClosed,
                   sessionStorage, webLocation>>
    /\ UNCHANGED notWebVars

\* the five-minute timeout of the handshake that set its timeout first
WebTimeout ==
    /\ webLocation = "login"
    /\ webTimeouts # <<>>
    /\ webTimeouts' = Tail(webTimeouts)
    /\ IF plexOAuthWindow # 0 /\ ~closed(plexOAuthWindow)
       THEN /\ closePlexOAuthWindow
            /\ web' = Callback(Head(webTimeouts), "Authentication timeout")
       ELSE UNCHANGED <<plexOAuthWindow, pinPolling, popup, popupPin,
                        webTimers, web>>
    /\ UNCHANGED <<authorized, lastTick, userClosed, sessionStorage, webLocation>>
    /\ UNCHANGED notWebVars

\* the user closes the popup
UserClosesPopup ==
    /\ webLocation = "login"
    /\ popup # 0
    /\ popup' = 0
    /\ popupPin' = 0
    /\ userClosed' = userClosed \cup {popup}
    /\ UNCHANGED <<plexOAuthWindow, pinPolling, authorized, webTimers,
                   webTimeouts, web, lastTick, sessionStorage, webLocation>>
    /\ UNCHANGED notWebVars

\* the user signs in at the provider's page in the popup, which authorizes
\* the PIN whose code the page was opened with
UserAuthorizes ==
    /\ webLocation = "login"
    /\ popup # 0
    /\ popupPin \notin authorized
    /\ authorized' = authorized \cup {popupPin}
    /\ UNCHANGED <<plexOAuthWindow, pinPolling, popup, popupPin, webTimers,
                   webTimeouts, web, lastTick, userClosed, sessionStorage,
                   webLocation>>
    /\ UNCHANGED notWebVars

\* ---------------------------------------------------- the specifications
\* the login page before any call of plexOAuth
InitWeb ==
    /\ plexOAuthWindow = 0
    /\ pinPolling = 0
    /\ popup = 0
    /\ popupPin = 0
    /\ authorized = {}
    /\ webTimers = {}
    /\ webTimeouts = <<>>
    /\ web = [h \in WebHandshakes |-> IdleWeb]
    /\ lastTick = NoTick
    /\ userClosed = {}
    /\ sessionStorage = [plex_auth_pin_id |-> 0, plex_auth_redirect |-> ""]
    /\ webLocation = "login"


\* the extension before any call, with the api as initialize() leaves it
InitExt ==
    /\ apiToken = storage.authToken
    /\ apiPlexToken = storage.plexToken
    /\ pollInterval = 0
    /\ timers = {}
    /\ auth = [h \in Handshakes |-> IdleAuth]
    /\ getCall = [g \in GetCallers |-> IdleGetCall]
    /\ logoutPc = "idle"
    /\ requestPending = NoRequests

InitPlayer ==
    /\ sessionValid = TRUE
    /\ recentlyCreatedClips = NoMap
    /\ player = [p \in Players |-> NoPlayer]
    /\ lastQuery = NoQuery

InitMedia ==
    /\ mediaTokenCache = NoMap
    /\ mediaCall = [c \in MediaCallers |-> IdleMediaCall]
    /\ lastReturn = NoReturn
    /\ location = "/"
    /\ now = 0
    /\ logoutCall = NoLogout

InitFetch ==
    /\ InitMedia
    /\ InitPlayer
    /\ InitWeb
    /\ storage = NoSession
    /\ InitExt
    /\ documentCookie \in CookieJars
    /\ csrfToken = ""
    /\ lastFetch = NoFetch
    /\ safeFetchPending = 0

NextFetch ==
    \/ \E u \in AppUrls, m \in Methods, h \in CallerHeaders : SafeFetch(u, m, h)
    \/ \E r \in CsrfValues \cup {""}, c \in CsrfValues \cup {""} :
          SafeFetchResponse(r, c)
    \/ SafeFetchError
    \/ \E jar \in CookieJars : CookieChange(jar)
    \/ PinRequest(createPlexPinRequest)
    \/ \E id \in PinIds : PinRequest(checkPinStatusRequest(id))
    \/ PinRequest(createAuthPinRequest)
    \/ \E id \in PinIds : PinRequest(checkAuthPinRequest(id))

SpecFetch == InitFetch /\ [][NextFetch]_vars

InitMediaSpec ==
    /\ InitMedia
    /\ InitPlayer
    /\ InitWeb
    /\ storage = NoSession
    /\ InitExt
    /\ documentCookie = <<<<"csrf_token", "t1">>>>
    /\ csrfToken = ""
    /\ lastFetch = NoFetch
    /\ safeFetchPending = 0

NextMedia ==
    \/ \E c \in MediaCallers, r \in Resources : GetMediaToken(c, r[1], r[2])
    \/ \E c \in MediaCallers, n \in TokenSerials, h \in {"", "t1"} :
          GetMediaTokenOk(c, n, h)
    \/ \E c \in MediaCallers, h \in {"", "t1"} : GetMediaToken401(c, h)
    \/ \E c \in MediaCallers, h \in {"", "t1"} : GetMediaTokenFailed(c, h)
    \/ \E c \in MediaCallers : GetMediaTokenThrew(c)
    \/ SessionExpires
    \/ MediaTick

SpecMedia == InitMediaSpec /\ [][NextMedia]_vars

InitIdleApp ==
    /\ InitMedia
    /\ InitPlayer
    /\ InitWeb
    /\ documentCookie = <<>>
    /\ csrfToken = ""
    /\ lastFetch = NoFetch
    /\ safeFetchPending = 0

\* the credential store: chrome.storage.local is empty or holds a session
\* that a handshake saved at time 0
InitStore ==
    /\ InitIdleApp
    /\ storage \in {NoSession,
                     [authToken |-> "at_1a", plexToken |-> "ptk_1",
                      tokenExpiry |-> TokenLifetime]}
    /\ InitExt

NextStore ==
    \/ \E g \in GetCallers : GetStoredTokens(g)
    \/ \E g \in GetCallers : GetStoredTokensRead(g)
    \/ \E g \in GetCallers : RefreshTokensRead(g)
    \/ \E g \in GetCallers, a \in {"at_1a", "at_1b"} : RefreshSigninOk(g, a)
    \/ \E g \in GetCallers : RefreshSigninFailed(g)
    \/ \E g \in GetCallers : RefreshSaved(g)
    \/ \E g \in GetCallers : RefreshCleared(g)
    \/ ClearTokens
    \/ ClearTokensDone
    \/ ExtTick

SpecStore == InitStore /\ [][NextStore]_vars

\* the handshake of the extension, from an empty credential store
InitExtSpec ==
    /\ InitIdleApp
    /\ storage = NoSession
    /\ InitExt

NextExt ==
    \/ \E h \in Handshakes : InitiateAuth(h)
    \/ \E h \in Handshakes : PinCreated(h)
    \/ \E h \in Handshakes : PinFailed(h)
    \/ \E h \in Handshakes : TabCreated(h)
    \/ \E h \in Handshakes : PollTick(h)
    \/ \E h \in Handshakes : PollToken(h)
    \/ \E h \in Handshakes : PollNothing(h)
    \/ \E h \in Handshakes, a \in {"at_1a", "at_2a"} : SigninOk(h, a)
    \/ \E h \in Handshakes : SigninFailed(h)
    \/ \E h \in Handshakes : TokensSaved(h)

SpecExt == InitExtSpec /\ [][NextExt]_vars

\* the players of the application page
InitPlayerSpec ==
    /\ InitMedia
    /\ InitPlayer
    /\ InitWeb
    /\ storage = NoSession
    /\ InitExt
    /\ documentCookie = <<<<"csrf_token", "t1">>>>
    /\ csrfToken = ""
    /\ lastFetch = NoFetch
    /\ safeFetchPending = 0

NextPlayer ==
    \/ \E id \in ClipIds : MarkClipAsRecentlyCreated(id)
    \/ \E p \in Players, id \in ClipIds : PreviewClip(p, id)
    \/ \E p \in Players, st \in {200, 401, 500}, n \in TokenSerials :
          PreviewClipToken(p, st, n)
    \/ \E p \in Players : LoadSucceeds(p)
    \/ \E p \in Players, code \in ErrorCodes : PlayerError(p, code)
    \/ \E p \in Players, st \in {200, 401, 500}, n \in TokenSerials :
          HandleMediaErrorToken(p, st, n)
    \/ SessionExpires
    \/ PlayerTick

SpecPlayer == InitPlayerSpec /\ [][NextPlayer]_vars

\* the handshake of the web application
InitWebSpec ==
    /\ InitIdleApp
    /\ storage = NoSession
    /\ InitExt

NextWeb ==
    \/ \E h \in WebHandshakes : PlexOAuth(h)
    \/ \E h \in WebHandshakes : PopupOpened(h)
    \/ \E h \in WebHandshakes : Redirected(h)
    \/ \E h \in WebHandshakes : PinNotCreated(h)
    \/ \E h \in WebHandshakes : WebTick(h)
    \/ \E h \in WebHandshakes : WebPollToken(h)
    \/ \E h \in WebHandshakes : WebPollNothing(h)
    \/ WebTimeout
    \/ UserClosesPopup
    \/ UserAuthorizes

SpecWeb == InitWebSpec /\ [][NextWeb]_vars


\* the API client of the extension next to safeFetch of the application page
InitApiSpec ==
    /\ InitIdleApp
    /\ storage = NoSession
    /\ InitExt

NextApi ==
    \/ \E e \in ApiEndpoints : ApiCall(e)
    \/ Authenticate
    \/ RequestSettles
    \/ \E a \in {"", "at_1a", "at_1b"} : AuthenticateResponse(a)
    \/ AuthenticateError
    \/ ClearTokens
    \/ ClearTokensDone
    \/ PinRequest(createAuthPinRequest)
    \/ \E id \in PinIds : PinRequest(checkAuthPinRequest(id))
    \/ \E u \in AppUrls, m \in {"GET", "POST"} : SafeFetch(u, m, NoHeaders)
    \/ \E r \in CsrfValues : SafeFetchResponse(r, "")
    \/ SafeFetchError

SpecApi == InitApiSpec /\ [][NextApi]_vars

\* the resource token cache with logout() of the page
NextLogout ==
    \/ \E c \in MediaCallers, r \in Resources : GetMediaToken(c, r[1], r[2])
    \/ \E c \in MediaCallers, n \in TokenSerials : GetMediaTokenOk(c, n, "")
    \/ \E c \in MediaCallers : GetMediaToken401(c, "")
    \/ \E c \in MediaCallers : GetMediaTokenFailed(c, "")
    \/ \E c \in MediaCallers : GetMediaTokenThrew(c)
    \/ Logout
    \/ \E h \in {"", "t1"} : LogoutOk(h)
    \/ \E h \in {"", "t1"} : LogoutNotOk(h)
    \/ LogoutThrew
    \/ MediaTick

SpecLogout == InitMediaSpec /\ [][NextLogout]_vars

\* the resource token cache with the players that evict from it
NextCache ==
    \/ \E c \in MediaCallers, r \in Resources : GetMediaToken(c, r[1], r[2])
    \/ \E c \in MediaCallers, n \in TokenSerials : GetMediaTokenOk(c, n, "")
    \/ \E c \in MediaCallers : GetMediaTokenFailed(c, "")
    \/ \E c \in MediaCallers : GetMediaTokenThrew(c)
    \/ \E p \in Players, id \in ClipIds : PreviewClip(p, id)
    \/ \E p \in Players, st \in {200, 500}, n \in TokenSerials :
          PreviewClipToken(p, st, n)
    \/ \E p \in Players : LoadSucceeds(p)
    \/ \E p \in Players, code \in ErrorCodes : PlayerError(p, code)
    \/ \E p \in Players, st \in {200, 500}, n \in TokenSerials :
          HandleMediaErrorToken(p, st, n)

SpecCache == InitPlayerSpec /\ [][NextCache]_vars

\* the recently-created markers on their own
NextMarker ==
    \/ \E id \in QueriedClipIds : MarkClipAsRecentlyCreated(id)
    \/ \E id \in QueriedClipIds : IsClipRecentlyCreated(id)
    \/ MarkerTick

SpecMarker == InitPlayerSpec /\ [][NextMarker]_vars

\* ------------------------------------------------------------- the claims
\* the value of the cookie called name; "" when the page has no such cookie
CookieValue(name) ==
    IF \E i \in 1..Len(documentCookie) : documentCookie[i][1] = name
    THEN documentCookie[CHOOSE i \in 1..Len(documentCookie) :
                            documentCookie[i][1] = name][2]
    ELSE ""

\* POST, PUT, DELETE and PATCH in any letter case
MutatingMethods == {"POST", "post", "PUT", "Delete", "PATCH"}

\* this step is a call of fetch made by safeFetch
SafeFetchCalled ==
    lastFetch'.seq # lastFetch.seq /\ lastFetch'.via = "safeFetch"

\* C7: whenever safeFetch sends a request with a mutating method, the
\* X-CSRF-Token header of the request equals the value the csrf_token cookie
\* has at that moment (no header when the cookie is absent or empty), whatever
\* the in-memory mirror csrfToken held when safeFetch was entered.
C7_HeaderEqualsCookieAtCall ==
    [][(SafeFetchCalled /\ lastFetch'.method \in MutatingMethods)
         => HeaderOf(lastFetch', "X-CSRF-Token") = CookieValue("csrf_token")]_vars

\* a mutating request went out with the cookie's value while the mirror held
\* another, older value
C7_Witness ==
    /\ lastFetch.via = "safeFetch"
    /\ lastFetch.method \in MutatingMethods
    /\ HeaderOf(lastFetch, "X-CSRF-Token") \in CsrfValues
    /\ lastFetch.mirrorBefore \in CsrfValues
    /\ lastFetch.mirrorBefore # HeaderOf(lastFetch, "X-CSRF-Token")

\* C8: a request sent by safeFetch carries the X-CSRF-Token header only if its
\* method is POST, PUT, DELETE or PATCH in some letter case; with GET or
\* without a method it carries none.
C8_HeaderOnlyOnMutatingMethods ==
    (lastFetch.via = "safeFetch" /\ "X-CSRF-Token" \in DOMAIN lastFetch.headers)
        => lastFetch.method \in MutatingMethods

\* a GET or method-less request went out without the header although the
\* cookie and the mirror both held a token
C8_Witness ==
    /\ lastFetch.via = "safeFetch"
    /\ lastFetch.method \in {"", "GET", "get"}
    /\ "X-CSRF-Token" \notin DOMAIN lastFetch.headers
    /\ lastFetch.mirrorBefore \in CsrfValues
    /\ CookieValue("csrf_token") \in CsrfValues

\* the request is a PIN creation or a PIN status poll
IsPinRequest(req) ==
    req.url # <<>> /\ req.url[1] \in {"/api/v1/auth/pin", "/api/v1/auth/pin/"}

\* C9: no request to /auth/pin or /auth/pin/{id}, from the web page or from
\* the extension, carries the X-CSRF-Token header.
C9_PinRequestsCarryNoCsrfHeader ==
    IsPinRequest(lastFetch) => "X-CSRF-Token" \notin DOMAIN lastFetch.headers

\* the web page created a PIN while the cookie and the mirror held a token
C9_Witness ==
    /\ lastFetch.via = "createPlexPin"
    /\ IsPinRequest(lastFetch)
    /\ lastFetch.mirrorBefore \in CsrfValues
    /\ CookieValue("csrf_token") \in CsrfValues

\* the cache holds an entry for the resource that expires after now
UnexpiredEntry(r) ==
    /\ cacheKey(r[1], r[2]) \in DOMAIN mediaTokenCache
    /\ mediaTokenCache[cacheKey(r[1], r[2])].expiresAt > now

\* this step is caller c entering getMediaToken for resource r
MediaCallStarted(c, r) ==
    /\ mediaCall[c].pc = "idle"
    /\ \/ /\ mediaCall'[c].pc = "fetching"
          /\ mediaCall'[c].resourceId = r[1]
          /\ mediaCall'[c].resourceType = r[2]
       \/ /\ mediaCall'[c].pc = "idle"
          /\ lastReturn'.seq # lastReturn.seq
          /\ lastReturn'.caller = c
          /\ lastReturn'.resourceId = r[1]
          /\ lastReturn'.resourceType = r[2]

\* C10: a call of getMediaToken for a resource whose cache entry has not
\* expired returns the cached token at once, sends no request and leaves
\* the cache as it was (so the next call finds the same entry).
C10_CacheHitReturnsCachedToken ==
    [][\A c \in MediaCallers, r \in Resources :
          (MediaCallStarted(c, r) /\ UnexpiredEntry(r))
            => /\ mediaCall'[c].pc = "idle"
               /\ lastReturn'.token = mediaTokenCache[cacheKey(r[1], r[2])].token
               /\ lastFetch' = lastFetch
               /\ mediaTokenCache' = mediaTokenCache]_vars

\* a call was answered from the cache
C10_Witness ==
    /\ lastReturn.fromCache
    /\ lastReturn.token # NullToken
    /\ UnexpiredEntry(<<lastReturn.resourceId, lastReturn.resourceType>>)

C2_ClosedPopupIsCancelledAtNextTick ==
    [][\A h \in WebHandshakes :
          (/\ lastTick'.seq # lastTick.seq
           /\ lastTick'.h = h
           /\ web[h].window \in userClosed
           /\ closed(web[h].window)
           /\ \A i \in 1..Len(web[h].callbacks) : web[h].callbacks[i] # "success")
            => /\ lastTick'.outcome = "cancelled"
               /\ web'[h].callbacks =
                      Append(web[h].callbacks, "Authentication cancelled")
               /\ h \notin webTimers']_vars

\* C4: at most one handshake of the web application is active: no two
\* intervals are live at once, and only the handshake started last has one.
C4_AtMostOneActiveHandshake ==
    /\ Cardinality(webTimers) <= 1
    /\ \A h1, h2 \in WebHandshakes :
          (h1 < h2 /\ web[h2].pc = "polling") => h1 \notin webTimers

\* C3: a handshake sends at most 60 status polls; after the tick that finds
\* the attempts exhausted the handshake has failed and its timer is stopped;
\* and a handshake that is still pending has a live timer or a poll in
\* flight, so that it will end.
C3_BoundedPollLoop ==
    \A h \in Handshakes :
        /\ auth[h].inflight > 0 => auth[h].attempts <= maxAttempts + 1
        /\ auth[h].attempts > maxAttempts
             => (h \notin timers /\ auth[h].pc # "polling")
        /\ auth[h].pc = "polling" => (h \in timers \/ auth[h].inflight > 0)

C6_FailedRefreshReturnsNoSession ==
    \A g \in GetCallers :
        (getCall[g].refreshFailed /\ getCall[g].pc \in {"returned", "raised"})
          => /\ getCall[g].pc = "returned"
             /\ getCall[g].data = NoSession
             /\ isAuthenticated(getCall[g]) = "false"

\* C11: for one player, handleMediaError evicts the token at most once and
\* retries the load at most once; a second failure is not retried.
C11_OneEvictionOneRetry ==
    \A p \in Players : player[p].evictions <= 1 /\ player[p].retries <= 1

\* the marker of the clip is set and has not expired
UnexpiredMarker(clipId) ==
    clipId \in DOMAIN recentlyCreatedClips /\ recentlyCreatedClips[clipId] > now

C13_NoRequestWithoutSession ==
    [][(~sessionValid /\ lastFetch' # lastFetch)
          => lastFetch'.url # <<"/api/v1/auth/media-token">>]_vars

\* C14: a call of getMediaToken that finds no entry, or an expired one,
\* requests a token for exactly its (resourceType, resourceId); when the
\* request succeeds the token is stored under that key with expiresAt 50
\* minutes after the completion, less than the backend's 60 minutes, and is
\* returned; and a token returned from the cache expires after now.
C14_MissFetchesAndCachesForFiftyMinutes ==
    [][/\ \A c \in MediaCallers, r \in Resources :
            (MediaCallStarted(c, r) /\ ~UnexpiredEntry(r))
              => /\ mediaCall'[c].pc = "fetching"
                 /\ lastFetch'.seq # lastFetch.seq
                 /\ lastFetch'.url = <<"/api/v1/auth/media-token">>
                 /\ lastFetch'.method = "POST"
                 /\ lastFetch'.body = [resource_id |-> r[1], resource_type |-> r[2]]
                 /\ mediaTokenCache' = mediaTokenCache
       /\ \A c \in MediaCallers :
            (/\ mediaCall[c].pc = "fetching"
             /\ mediaCall'[c].pc = "idle"
             /\ lastReturn'.token # NullToken)
              => LET key == cacheKey(mediaCall[c].resourceId,
                                     mediaCall[c].resourceType)
                 IN  /\ key \in DOMAIN mediaTokenCache'
                     /\ mediaTokenCache'[key].token = lastReturn'.token
                     /\ mediaTokenCache'[key].expiresAt = now + 50 * 60 * 1000
                     /\ mediaTokenCache'[key].expiresAt < now + ServerTokenLifetime
                     /\ lastReturn'.token.resourceId = mediaCall[c].resourceId
                     /\ lastReturn'.token.resourceType = mediaCall[c].resourceType
                     /\ \A k \in DOMAIN mediaTokenCache' \ {key} :
                            /\ k \in DOMAIN mediaTokenCache
                            /\ mediaTokenCache'[k] = mediaTokenCache[k]
       /\ (lastReturn'.seq # lastReturn.seq /\ lastReturn'.fromCache)
            => UnexpiredEntry(<<lastReturn'.resourceId, lastReturn'.resourceType>>)
      ]_vars

\* a call whose request took more than 50 minutes has cached its token for 50
\* minutes from the completion and returned it
C14_Witness ==
    /\ ~lastReturn.fromCache
    /\ lastReturn.token # NullToken
    /\ now > MediaTokenTtl
    /\ LET key == cacheKey(lastReturn.resourceId, lastReturn.resourceType)
       IN  /\ key \in DOMAIN mediaTokenCache
           /\ mediaTokenCache[key].token = lastReturn.token
           /\ mediaTokenCache[key].expiresAt = now + MediaTokenTtl

\* C15: in chrome.storage.local and in the API client alike, an access token
\* is never present while the provider token is absent.
C15_AccessTokenImpliesProviderToken ==
    /\ storage.authToken # "" => storage.plexToken # ""
    /\ apiToken # "" => apiPlexToken # ""

\* C16: a handshake has written the credential store once when it is past
\* its sign-in exchange, and never otherwise: not while it is pending, not
\* after it has failed, and not a second time when another poll returns the
\* provider token late.
C16_OneStoreWritePerSuccess ==
    \A h \in Handshakes :
        /\ auth[h].writes <= 1
        /\ auth[h].pc \in {"saving", "done"} <=> auth[h].writes = 1
        /\ auth[h].pc = "failed" => auth[h].writes = 0

\* a handshake has succeeded and written its session while another of its
\* polls, sent before the first returned the token, is still in flight
C16_Witness ==
    \E h \in Handshakes :
        /\ auth[h].pc = "done"
        /\ auth[h].inflight > 0
        /\ auth[h].writes = 1
        /\ storage.plexToken = auth[h].token

\* C17: the access token and the provider token that a request can read
\* together, from chrome.storage.local or from the API client, belong to the
\* same session: the access token was issued for that provider token.
C17_SessionReplacedAtomically ==
    /\ (storage.authToken # "" /\ storage.plexToken # "")
          => storage.authToken \in AccessTokens(storage.plexToken)
    /\ (apiToken # "" /\ apiPlexToken # "")
          => apiToken \in AccessTokens(apiPlexToken)


\* the request carries `Bearer ${token}` in its Authorization header
CarriesBearer(req, token) ==
    /\ "Authorization" \in DOMAIN req.headers
    /\ req.headers["Authorization"] = <<"Bearer ", token>>

NoAuthorization(req) == "Authorization" \notin DOMAIN req.headers

\* the backend calls of the extension's API client
ApiClientVias == {"request", "createAuthPin", "checkAuthPin"}

HasTimeout(h) == \E i \in 1..Len(webTimeouts) : webTimeouts[i] = h

\* C20: a call of plexOAuth whose PIN was not created has called errorCallback
\* with the PIN error and nothing else, has opened no popup, set no interval
\* and no timeout, and sent no status poll; when it fails, no popup is left
\* open, no interval is left in pinPolling and the page's storage is as before.
C20_FailedPinEndsHandshake ==
    /\ [](\A h \in WebHandshakes :
            web[h].pc = "failed"
               => /\ web[h].callbacks = <<"Failed to create authentication PIN">>
                  /\ web[h].pinId = 0
                  /\ web[h].window = 0
                  /\ web[h].inflight = 0
                  /\ h \notin webTimers
                  /\ ~HasTimeout(h)
                  /\ lastTick.h # h)
    /\ [][\A h \in WebHandshakes :
            (web[h].pc = "creatingPin" /\ web'[h].pc = "failed")
               => /\ popup' = 0
                  /\ plexOAuthWindow' = 0
                  /\ pinPolling' = 0
                  /\ sessionStorage' = sessionStorage
                  /\ webLocation' = webLocation]_vars

\* a call of plexOAuth has failed at its PIN while an earlier call had its
\* popup open and its interval running, and neither is left
C20_Witness ==
    \E h \in WebHandshakes, g \in WebHandshakes :
        /\ web[h].pc = "failed"
        /\ web[g].pc = "polling"
        /\ popup = 0
        /\ webTimers = {}

\* C20 for the extension, under SpecExt: a call of initiateAuth whose
\* createAuthPin threw has failed with that error, has opened no tab, set no
\* interval, sent no status poll and written nothing to chrome.storage.local.
C20_FailedPinEndsExtensionHandshake ==
    \A h \in Handshakes :
        auth[h].error = "pin"
           => /\ auth[h].pc = "failed"
              /\ ~auth[h].tabOpen
              /\ auth[h].pinId = ""
              /\ auth[h].attempts = 0
              /\ auth[h].inflight = 0
              /\ auth[h].writes = 0
              /\ h \notin timers

\* C21: a logout that completes leaves chrome.storage.local without the three
\* keys and the API client without tokens, and with no handshake running an
\* empty store stays empty: no refresh that began before the logout writes a
\* session back.
C21_LogoutDestroysSession ==
    [][/\ (logoutPc = "clearing" /\ logoutPc' = "idle")
            => (storage' = NoSession /\ apiToken' = "" /\ apiPlexToken' = "")
       /\ storage = NoSession => storage' = NoSession]_vars

\* C22: when a run of logout() ends, whatever the outcome of its request, the
\* resource token cache is empty, and a call of getMediaToken whose request was
\* sent before that run ended adds nothing to the cache when it returns.
C22_NoTokenOfLoggedOutSession ==
    [][/\ logoutCall'.runs > logoutCall.runs => mediaTokenCache' = NoMap
       /\ \A c \in MediaCallers :
            (/\ mediaCall[c].pc = "fetching"
             /\ mediaCall[c].logouts < logoutCall.runs
             /\ mediaCall'[c].pc = "idle")
              => mediaTokenCache' = mediaTokenCache]_vars

\* the entry of a Map under a key, <<>> when there is none
EntryAt(map, key) == IF key \in DOMAIN map THEN <<map[key]>> ELSE <<>>

\* the key of the (resourceType, resourceId) of a call
KeyOf(call) == <<call.resourceType, ":", call.resourceId>>

\* C23: the entry under a key of the resource token cache changes only in a
\* step of a call for that key's (resourceType, resourceId): a getMediaToken
\* that returns, or a player's preview or error handler; the entries under all
\* other keys, the same id under another type included, stay as they are.
C23_OnlyTheCallsEntryChanges ==
    [][\A k \in (DOMAIN mediaTokenCache) \cup (DOMAIN mediaTokenCache') :
          EntryAt(mediaTokenCache', k) # EntryAt(mediaTokenCache, k)
             => \/ \E c \in MediaCallers :
                      /\ mediaCall[c].pc = "fetching"
                      /\ mediaCall'[c].pc = "idle"
                      /\ k = KeyOf(mediaCall[c])
                \/ \E p \in Players :
                      /\ player[p].pc \in {"opening", "loading", "refetching"}
                      /\ player'[p] # player[p]
                      /\ k = KeyOf(player[p])]_vars

\* handleMediaError has evicted the entry of the player's video while the
\* entry of the same id under the type thumbnail is in the cache
C23_Witness ==
    \E p \in Players :
        /\ player[p].pc = "refetching"
        /\ KeyOf(player[p]) \notin DOMAIN mediaTokenCache
        /\ <<"thumbnail", ":", player[p].resourceId>> \in DOMAIN mediaTokenCache

\* C24: a call of isClipRecentlyCreated(id) returns true exactly when id has
\* a marker and the time is before the marker's expiresAt; a call at or after
\* expiresAt returns false and removes the marker, a call that returns true
\* leaves it, no call touches another id's marker, and marking an id sets its
\* expiresAt to five minutes from now whatever marker it had.
C24_MarkerExpiresOnItsOwn ==
    [][/\ lastQuery'.seq # lastQuery.seq
            => LET id == lastQuery'.clipId
                   marked == id \in DOMAIN recentlyCreatedClips
               IN  /\ lastQuery'.result
                         = (marked /\ now < recentlyCreatedClips[id])
                   /\ (marked /\ now >= recentlyCreatedClips[id])
                         => id \notin DOMAIN recentlyCreatedClips'
                   /\ lastQuery'.result
                         => recentlyCreatedClips' = recentlyCreatedClips
                   /\ \A other \in QueriedClipIds \ {id} :
                         EntryAt(recentlyCreatedClips', other)
                            = EntryAt(recentlyCreatedClips, other)
       /\ (lastQuery'.seq = lastQuery.seq
              /\ recentlyCreatedClips' # recentlyCreatedClips)
            => \E id \in QueriedClipIds :
                  recentlyCreatedClips' =
                      MapSet(recentlyCreatedClips, id, now + 5 * 60 * 1000)]_vars

\* a call at the very instant of expiry has returned false and removed the
\* marker
C24_Witness ==
    /\ lastQuery.expiresAt > 0
    /\ lastQuery.expiresAt = now
    /\ ~lastQuery.result
    /\ lastQuery.clipId \notin DOMAIN recentlyCreatedClips

\* C25: a call of getStoredTokens sends at most one sign-in request: once its
\* refresh has succeeded or failed it never enters refreshTokens again, and
\* the read that follows a successful refresh returns.
C25_AtMostOneRefreshPerCall ==
    [][\A g \in GetCallers :
          /\ (getCall[g].refreshed \/ getCall[g].refreshFailed)
                => getCall'[g].pc \notin {"refreshRead", "refreshSignin"} \ {getCall[g].pc}
          /\ (getCall[g].refreshed /\ getCall[g].pc = "read"
                 /\ getCall'[g] # getCall[g])
                => getCall'[g].pc = "returned"]_vars

\* a call has refreshed once and returned the session it saved
C25_Witness ==
    \E g \in GetCallers :
        /\ getCall[g].pc = "returned"
        /\ getCall[g].refreshed
        /\ getCall[g].data.tokenExpiry > now

\* C26: a call of plexOAuth invokes at most one of successCallback and
\* errorCallback, and invokes it at most once.
C26_AtMostOneCallback ==
    \A h \in WebHandshakes : Len(web[h].callbacks) <= 1

\* C27: when the five-minute timeout of a call of plexOAuth fires, the popup
\* and the interval of every call made after it are left as they are, and a
\* call that has already called one of its callbacks is not reported a timeout.
C27_TimeoutLeavesLaterHandshakesAlone ==
    [][(webTimeouts # <<>> /\ webTimeouts' = Tail(webTimeouts))
          => LET t == Head(webTimeouts)
             IN  /\ \A g \in WebHandshakes :
                       g > t =>
                          /\ g \in webTimers => g \in webTimers'
                          /\ (popup # 0 /\ popupPin = WebPinOf(g)) => popup' = popup
                 /\ web[t].callbacks # <<>>
                       => web'[t].callbacks = web[t].callbacks]_vars

\* C28: the interval timer of a handshake runs exactly as long as its
\* pollForToken promise is pending, so that the promise settles by a token or
\* by its 61st tick and no timer is left behind; and a timer is stopped only
\* in a step of the handshake that set it.
C28_EachHandshakeStopsItsOwnTimer ==
    /\ [](\A h \in Handshakes : auth[h].pc = "polling" <=> h \in timers)
    /\ [][\A h \in Handshakes :
            (h \in timers /\ h \notin timers') => auth'[h] # auth[h]]_vars

\* C29: getSecureMediaUrl gives its caller a URL only with a token in it: a
\* player that previewClip has created from the URL (the branch after
\* '!secureVideoUrl') has a source whose token parameter holds a token issued
\* for the player's (resourceType, resourceId).
C29_SecureUrlCarriesToken ==
    \A p \in Players :
        player[p].pc \notin {"none", "opening"}
           => /\ player[p].src # NullToken
              /\ player[p].src.resourceId = player[p].resourceId
              /\ player[p].src.resourceType = player[p].resourceType

\* C30: a call of getMediaToken that returns null after its request (a
\* response that is not ok, a 401, or a fetch that threw) leaves the resource
\* token cache exactly as it was: no entry is added, changed or removed.
C30_FailedFetchLeavesCache ==
    [][\A c \in MediaCallers :
          (/\ mediaCall[c].pc = "fetching"
           /\ mediaCall'[c].pc = "idle"
           /\ lastReturn'.token = NullToken)
            => /\ mediaTokenCache' = mediaTokenCache
               /\ lastReturn'.caller = c
               /\ ~lastReturn'.fromCache]_vars

\* the refetch of an expired entry has failed: null was returned and the
\* expired entry is still in the cache, so the next call fetches again
C30_Witness ==
    LET key == cacheKey(lastReturn.resourceId, lastReturn.resourceType)
    IN  /\ lastReturn.caller # 0
        /\ lastReturn.token = NullToken
        /\ key \in DOMAIN mediaTokenCache
        /\ mediaTokenCache[key].expiresAt <= now

====
